---- MODULE Spec2Model ----
(***************************************************************************)
(* Model of the yap-machine journaling client: the axios client with its   *)
(* single-retry response interceptor, the chat service, the ChatProvider   *)
(* store with sanitizeContent, and the AIChat.handleSubmit turn protocol.  *)
(***************************************************************************)
EXTENDS Integers, Sequences, FiniteSets, TLC

(***************************************************************************)
(* JavaScript values.  A text is a TLA+ string wrapped with its typeof tag *)
(* so that `typeof content === 'string'` is something the model tests.     *)
(***************************************************************************)
Str(s) == [type |-> "string", str |-> s]

Undefined == [type |-> "undefined"]

Null == [type |-> "null"]

Num(n) == [type |-> "number", num |-> n]

IsString(v) == v.type = "string"

\* String.prototype.replace: calling v.replace on any other value is a TypeError
HasReplaceMethod(v) == v.type = "string"

(***************************************************************************)
(* Characters and the regular-expression machinery of sanitizeContent.     *)
(***************************************************************************)
UpperCase == "ABCDEFGHIJKLMNOPQRSTUVWXYZ"

LowerCase == "abcdefghijklmnopqrstuvwxyz"

DigitsAndUnderscore == "0123456789_"

CharAt(s, i) == SubSeq(s, i, i)

\* \w of a JavaScript regular expression: [A-Za-z0-9_]
WordChars ==
  {CharAt(UpperCase, i) : i \in 1..Len(UpperCase)} \cup
  {CharAt(LowerCase, i) : i \in 1..Len(LowerCase)} \cup
  {CharAt(DigitsAndUnderscore, i) : i \in 1..Len(DigitsAndUnderscore)}

IsWordChar(c) == c \in WordChars

UpperSet == {CharAt(UpperCase, i) : i \in 1..Len(UpperCase)}

LowerOf ==
  [c \in UpperSet |->
     CharAt(LowerCase, CHOOSE i \in 1..Len(UpperCase) : CharAt(UpperCase, i) = c)]

\* case folding of the /i flag on ASCII letters
ToLower(c) == IF c \in UpperSet THEN LowerOf[c] ELSE c

\* the literal pat (lower case) matches s at position i, ignoring case
MatchAtCI(s, i, pat) ==
  /\ i >= 1
  /\ i + Len(pat) - 1 <= Len(s)
  /\ \A k \in 1..Len(pat) : ToLower(CharAt(s, i + k - 1)) = CharAt(pat, k)

\* s contains the literal pat, ignoring case
ContainsCI(s, pat) == \E i \in 1..Len(s) : MatchAtCI(s, i, pat)

\* s contains the literal pat, case-sensitive
Contains(s, pat) ==
  \E i \in 1..Len(s) : i + Len(pat) - 1 <= Len(s) /\ SubSeq(s, i, i + Len(pat) - 1) = pat

ScriptOpen == "<script"

ScriptClose == "</script>"

JsScheme == "javascript:"

\* /<script\b[^<]*(?:(?!<\/script>)<[^<]*)*<\/script>/ tried at position i:
\* `<script`, a word boundary, then text up to the first `</script>`; the
\* inner group never steps over a `</script>`, so the match ends at the first
\* one.  The value is the position after the match, 0 when there is none.
ScriptMatchEnd(s, i) ==
  LET n == Len(ScriptOpen)
      closers == {j \in (i + n)..Len(s) : MatchAtCI(s, j, ScriptClose)}
  IN IF /\ MatchAtCI(s, i, ScriptOpen)
        /\ (i + n > Len(s) \/ ~IsWordChar(CharAt(s, i + n)))
        /\ closers # {}
     THEN (CHOOSE j \in closers : \A k \in closers : j <= k) + Len(ScriptClose)
     ELSE 0

\* /javascript:/ tried at position i
JsMatchEnd(s, i) == IF MatchAtCI(s, i, JsScheme) THEN i + Len(JsScheme) ELSE 0

\* /on\w+=/ tried at position i: `on`, the longest run of word characters
\* (at least one), then `=` right after the run
OnMatchEnd(s, i) ==
  LET stops == {j \in (i + 2)..(Len(s) + 1) : j > Len(s) \/ ~IsWordChar(CharAt(s, j))}
      stop  == CHOOSE j \in stops : \A k \in stops : j <= k
  IN IF /\ MatchAtCI(s, i, "on")
        /\ stop > i + 2
        /\ stop <= Len(s)
        /\ CharAt(s, stop) = "="
     THEN stop + 1
     ELSE 0

\* String.prototype.replace(/.../gi, ''): one left-to-right pass from position
\* i; the leftmost match is cut out and the scan resumes after it, so matches
\* do not overlap and the result is not scanned again
Least(S) == CHOOSE j \in S : \A k \in S : j <= k

RECURSIVE ReplaceScript(_, _)
ReplaceScript(s, i) ==
  LET starts == {j \in i..Len(s) : ScriptMatchEnd(s, j) > 0}
  IN IF starts = {} THEN SubSeq(s, i, Len(s))
     ELSE SubSeq(s, i, Least(starts) - 1) \o ReplaceScript(s, ScriptMatchEnd(s, Least(starts)))

RECURSIVE ReplaceJs(_, _)
ReplaceJs(s, i) ==
  LET starts == {j \in i..Len(s) : JsMatchEnd(s, j) > 0}
  IN IF starts = {} THEN SubSeq(s, i, Len(s))
     ELSE SubSeq(s, i, Least(starts) - 1) \o ReplaceJs(s, JsMatchEnd(s, Least(starts)))

RECURSIVE ReplaceOn(_, _)
ReplaceOn(s, i) ==
  LET starts == {j \in i..Len(s) : OnMatchEnd(s, j) > 0}
  IN IF starts = {} THEN SubSeq(s, i, Len(s))
     ELSE SubSeq(s, i, Least(starts) - 1) \o ReplaceOn(s, OnMatchEnd(s, Least(starts)))

\* variant: what is left is escaped as well, an opening angle bracket first
Sanitize_escaping(s) ==
  LET t == ReplaceOn(ReplaceJs(ReplaceScript(s, 1), 1), 1)
  IN IF Len(t) > 0 /\ CharAt(t, 1) = "<" THEN "&lt;" \o SubSeq(t, 2, Len(t)) ELSE t

\* the three chained replace calls of sanitizeContent on a string
Sanitize(s) == ReplaceOn(ReplaceJs(ReplaceScript(s, 1), 1), 1)

(***************************************************************************)
(* Bounds and input domains.                                               *)
(***************************************************************************)
\* number of chat turns started in one behaviour
MaxTurns == 2

\* number of fragments concatenated into one sanitizer input
MaxFrags == 4

\* pieces the sanitizer inputs are assembled from
Fragments ==
  {"<script>alert(1)</script>", "javascript:alert(1)", "<scr", "ipt>", "java", "script:",
   "onx=", "</SCRIPT>"}

RECURSIVE Assembled(_)
Assembled(n) ==
  IF n = 0 THEN {""}
  ELSE LET shorter == Assembled(n - 1)
       IN shorter \cup {t \o f : t \in shorter, f \in Fragments}

SanInputs == Assembled(MaxFrags)

\* texts typed into the chat input
UserTexts == {"Hello", "javajavascript:script:"}

Arr(items) == [type |-> "array", items |-> items]

SomeContext ==
  [title |-> Str("Day oonx=nclick=1"), content_snippet |-> Str("walked"),
   created_at |-> "2025-04-01T10:00:00", similarity_score |-> 1]

\* HTTP statuses of failed attempts
ErrorStatuses == {400, 499, 500}

(***************************************************************************)
(* What the transport delivers for one attempt.                            *)
(***************************************************************************)
Response(data) ==
  [kind |-> "response", name |-> "", hasConfig |-> TRUE, status |-> 200, data |-> data]

\* AxiosError carrying the request config; status 0 stands for no response
AxiosError(status) ==
  [kind |-> "error", name |-> "AxiosError", hasConfig |-> TRUE, status |-> status,
   data |-> Undefined]

\* a failure that reaches the interceptor with error.config undefined
PlainError ==
  [kind |-> "error", name |-> "Error", hasConfig |-> FALSE, status |-> 0, data |-> Undefined]

\* what evaluating `undefined._retry` throws inside the interceptor
TypeError ==
  [kind |-> "error", name |-> "TypeError", hasConfig |-> FALSE, status |-> 0,
   data |-> Undefined]

\* bodies of successful POST /chat/message responses
ChatResponses ==
  {Response([response |-> Str("Hi there"), retrieved_contexts |-> Undefined]),
   Response([response |-> Str("Hi there"), retrieved_contexts |-> Arr(<<>>)]),
   Response([response |-> Str("<scr<script>alert(1)</script>ipt>"),
             retrieved_contexts |-> Arr(<<SomeContext>>)])}

Failures == {AxiosError(st) : st \in ErrorStatuses \cup {0}} \cup {PlainError}

Outcomes == ChatResponses \cup Failures

HasResponse(error) == error.status # 0

IsClientError(error) == HasResponse(error) /\ error.status >= 400 /\ error.status < 500

\* a failure the retry policy is meant for: 5xx or no response, config attached
IsRetryable(error) ==
  /\ error.kind = "error"
  /\ error.hasConfig
  /\ (~HasResponse(error) \/ error.status >= 500)

(***************************************************************************)
(* State.                                                                  *)
(***************************************************************************)
VARIABLES
  chatState,   \* ChatProvider: [messages, retrievedContexts, isLoading]
  inputText,   \* AIChat: the text of the input field
  turns,       \* the handleSubmit invocations suspended at their await, oldest first
  reqs,        \* the logical request of each of them, as the interceptor sees it
  started,     \* number of turns started so far
  lastDone,    \* the turn that finished most recently, with its settled request
  sanIn,       \* argument of a direct sanitizeContent call
  sanOut,      \* its result
  sanPc,       \* "idle", "called", "returned", "stored", "storedContexts" or "raised"
  route,       \* the route the router shows: "chat" (AIChat mounted) or "journal"
  call,        \* a direct call of a service method and what it gave its caller
  editor       \* JournalEntry: the state of the entry editor

vars ==
  <<chatState, inputText, turns, reqs, started, lastDone, sanIn, sanOut, sanPc, route, call,
    editor>>

Greeting ==
  "Hello! I'm your AI-powered journal assistant. You can ask me questions about your journal entries or have a conversation about them."

FallbackText ==
  "I'm sorry, I encountered an error while processing your request. Please try again later."

TroubleText ==
  "I'm sorry, I had trouble processing your request. Please try again later."

RetryDelayMs == 1000

initialChatState ==
  [messages |-> <<[role |-> "assistant", content |-> Str(Greeting)]>>,
   retrievedContexts |-> <<>>,
   isLoading |-> FALSE]

\* Sanitize tabulated once on the texts that circulate in the chat view (TLC
\* evaluates a constant definition a single time); any other string is
\* computed directly, so the table changes no result
BaseTexts ==
  {Greeting, FallbackText, TroubleText} \cup UserTexts
    \cup {o.data.response.str : o \in ChatResponses}
    \cup {SomeContext.title.str, SomeContext.content_snippet.str}

CirculatingTexts ==
  LET once == BaseTexts \cup {Sanitize(t) : t \in BaseTexts}
  IN once \cup {Sanitize(t) : t \in once}

SanitizeTable == [t \in CirculatingTexts |-> Sanitize(t)]

\* values a backend entry can carry in place of a text: the key is missing,
\* null, or a number
NonStrings == {Undefined, Null, Num(7)}

\* variant: the replace calls are made without the typeof test
sanitizeContentThrows_unguarded(content) == ~HasReplaceMethod(content)

\* sanitizeContent raises: the replace calls sit inside `typeof content === 'string'`
sanitizeContentThrows(content) == IsString(content) /\ ~HasReplaceMethod(content)

sanitizeContent(content) ==
  IF IsString(content)
  THEN Str(IF content.str \in CirculatingTexts
           THEN SanitizeTable[content.str]
           ELSE Sanitize(content.str))
  ELSE content

(***************************************************************************)
(* ChatProvider: the store operations.                                     *)
(***************************************************************************)
\* variant: the sanitized sequence is added to the stored one
updateMessages_additive(prevState, newMessages) ==
  LET sanitizedMessages ==
        [k \in 1..Len(newMessages) |->
           [newMessages[k] EXCEPT !.content = sanitizeContent(newMessages[k].content)]]
  IN [prevState EXCEPT !.messages = @ \o sanitizedMessages]

updateMessages(prevState, newMessages) ==
  LET sanitizedMessages ==
        [k \in 1..Len(newMessages) |->
           [newMessages[k] EXCEPT !.content = sanitizeContent(newMessages[k].content)]]
  IN [prevState EXCEPT !.messages = sanitizedMessages]

updateRetrievedContexts(prevState, contexts) ==
  LET sanitizedContexts ==
        [k \in 1..Len(contexts.items) |->
           [contexts.items[k] EXCEPT
              !.content_snippet = sanitizeContent(contexts.items[k].content_snippet),
              !.title = sanitizeContent(contexts.items[k].title)]]
  IN [prevState EXCEPT !.retrievedContexts = sanitizedContexts]

\* variant: the new state is built without spreading prevState
setIsLoading_withoutSpread(prevState, isLoading) ==
  [initialChatState EXCEPT !.isLoading = isLoading]

setIsLoading(prevState, isLoading) == [prevState EXCEPT !.isLoading = isLoading]

\* variant: an empty array counts as no contexts
Truthy_lengthChecked(v) ==
  /\ v.type \notin {"undefined", "null"}
  /\ (v.type = "array" => Len(v.items) > 0)

\* `if (response.contexts)`: undefined and null are falsy, every array is truthy
Truthy(v) == v.type \notin {"undefined", "null"}

\* contexts.map(...) raises a TypeError when contexts is not an array
MapThrows(contexts) == contexts.type # "array"

(***************************************************************************)
(* apiClient: one logical request and the response interceptor.            *)
(***************************************************************************)
Pending == [kind |-> "pending", name |-> "", hasConfig |-> FALSE, status |-> 0,
            data |-> Undefined]

\* apiClient.post(url, data): the first attempt is dispatched at once
NewRequest(url, data) ==
  [config   |-> [method |-> "post", url |-> url, data |-> data, retry |-> FALSE],
   phase    |-> "inflight",
   attempts |-> 1,
   waited   |-> 0,
   outcomes |-> <<>>,
   result   |-> Pending]

\* variant: one retried flag for the whole client instead of one per request
RetryFlag_shared(rs, i) == \E j \in 1..Len(rs) : rs[j].config.retry

\* originalRequest._retry, read from the config object of the failed request
RetryFlag(rs, i) == rs[i].config.retry

\* variant: the client-error range tested as status > 400
ShouldPropagate_above400(retried, error) ==
  retried \/ ~error.hasConfig \/ (HasResponse(error) /\ error.status > 400 /\ error.status < 500)

\* the condition of the interceptor's if, for an error that carries its config
ShouldPropagate(retried, error) ==
  retried \/ ~error.hasConfig \/ IsClientError(error)

\* variant: the request is reissued without `originalRequest._retry = true`
Intercept_flagNotSet(rs, i, outcome) ==
  LET r    == rs[i]
      seen == [r EXCEPT !.outcomes = Append(@, outcome)]
  IN IF outcome.kind = "response"
     THEN [seen EXCEPT !.phase = "settled", !.result = outcome]
     ELSE IF ~outcome.hasConfig
     THEN [seen EXCEPT !.phase = "settled", !.result = TypeError]
     ELSE IF r.config.retry \/ IsClientError(outcome)
     THEN [seen EXCEPT !.phase = "settled", !.result = outcome]
     ELSE [seen EXCEPT !.phase = "delay"]

\* variant: the response of the reissue is dropped and the request is rejected
\* with the error of the first attempt
Intercept_reissueNotReturned(rs, i, outcome) ==
  LET r    == rs[i]
      seen == [r EXCEPT !.outcomes = Append(@, outcome)]
  IN IF outcome.kind = "response"
     THEN IF r.config.retry
          THEN [seen EXCEPT !.phase = "settled", !.result = r.outcomes[1]]
          ELSE [seen EXCEPT !.phase = "settled", !.result = outcome]
     ELSE IF ~outcome.hasConfig
     THEN [seen EXCEPT !.phase = "settled", !.result = TypeError]
     ELSE IF ShouldPropagate(RetryFlag(rs, i), outcome)
     THEN [seen EXCEPT !.phase = "settled", !.result = outcome]
     ELSE [seen EXCEPT !.phase = "delay", !.config.retry = TRUE]

\* the response interceptor applied to the outcome of an attempt of request i;
\* with error.config undefined the test `originalRequest._retry` is evaluated
\* first and throws, so the promise is rejected with that TypeError
Intercept(rs, i, outcome) ==
  LET r    == rs[i]
      seen == [r EXCEPT !.outcomes = Append(@, outcome)]
  IN IF outcome.kind = "response"
     THEN [seen EXCEPT !.phase = "settled", !.result = outcome]
     ELSE IF ~outcome.hasConfig
     THEN [seen EXCEPT !.phase = "settled", !.result = TypeError]
     ELSE IF ShouldPropagate(RetryFlag(rs, i), outcome)
     THEN [seen EXCEPT !.phase = "settled", !.result = outcome]
     ELSE [seen EXCEPT !.phase = "delay", !.config.retry = TRUE]

(***************************************************************************)
(* chatService.contextualChat and the continuation of handleSubmit.        *)
(***************************************************************************)
formattedHistory(history) ==
  [k \in 1..Len(history) |->
     [role |-> history[k].role, content |-> history[k].content, timestamp |-> "now"]]

\* variant: the catch block rethrows as sendMessage does, so that the catch of
\* handleSubmit supplies the reply
contextualChat_rethrows(result) ==
  IF result.kind = "response"
  THEN [role |-> "assistant", content |-> result.data.response,
        contexts |-> result.data.retrieved_contexts]
  ELSE [role |-> "assistant", content |-> Str(TroubleText), contexts |-> Undefined]

\* what `await chatService.contextualChat(...)` evaluates to once the request
\* has settled with result: the catch block turns every failure into a reply
contextualChat(result) ==
  IF result.kind = "response"
  THEN [role |-> "assistant", content |-> result.data.response,
        contexts |-> result.data.retrieved_contexts]
  ELSE [role |-> "assistant", content |-> Str(FallbackText), contexts |-> Undefined]

\* variant: the catch block of contextualChat rethrows, as that of sendMessage
contextualChatSettles_rethrows(result) ==
  IF result.kind = "response"
  THEN [threw |-> FALSE, value |-> contextualChat(result)]
  ELSE [threw |-> TRUE, value |-> result]

\* how the promise of contextualChat settles: the catch block returns, so the
\* promise is always fulfilled
contextualChatSettles(result) == [threw |-> FALSE, value |-> contextualChat(result)]

\* how the promise of sendMessage settles: the catch block logs and rethrows
sendMessage(result) ==
  IF result.kind = "response"
  THEN [threw |-> FALSE,
        value |-> [role |-> "assistant", content |-> result.data.response]]
  ELSE [threw |-> TRUE, value |-> result]

\* variant: the transcript with the new user message is passed as history
historyArgument_updated(messages, updatedMessages) == updatedMessages

\* the second argument of chatService.contextualChat(userMessage.content, messages)
historyArgument(messages, updatedMessages) == messages

updatedMessagesOf(turn) == Append(turn.messages, turn.userMessage)

\* variant: the reply of a turn that overlapped with another is dropped
Continuation_dropStale(prevState, turn, response) ==
  IF turn.overlapped
  THEN setIsLoading(prevState, FALSE)
  ELSE setIsLoading(updateRetrievedContexts(
                      updateMessages(prevState,
                        Append(updatedMessagesOf(turn),
                               [role |-> "assistant", content |-> response.content])),
                      IF Truthy(response.contexts) THEN response.contexts ELSE Arr(<<>>)),
                    FALSE)

\* variant: without the finally block, so that nothing clears isLoading
Continuation_noFinally(prevState, turn, response) ==
  LET updatedMessages == updatedMessagesOf(turn)
      replied == updateMessages(prevState,
                   Append(updatedMessages,
                          [role |-> "assistant", content |-> response.content]))
      troubled == updateMessages(replied,
                   Append(updatedMessages,
                          [role |-> "assistant", content |-> Str(TroubleText)]))
  IN IF ~Truthy(response.contexts) THEN replied
     ELSE IF MapThrows(response.contexts) THEN troubled
     ELSE updateRetrievedContexts(replied, response.contexts)

\* variant: a reply without contexts clears the contexts displayed
Continuation_clearsContexts(prevState, turn, response) ==
  LET updatedMessages == updatedMessagesOf(turn)
      replied == updateMessages(prevState,
                   Append(updatedMessages,
                          [role |-> "assistant", content |-> response.content]))
      troubled == updateMessages(replied,
                   Append(updatedMessages,
                          [role |-> "assistant", content |-> Str(TroubleText)]))
      afterTry == IF ~Truthy(response.contexts)
                  THEN updateRetrievedContexts(replied, Arr(<<>>))
                  ELSE IF MapThrows(response.contexts) THEN troubled
                  ELSE updateRetrievedContexts(replied, response.contexts)
  IN setIsLoading(afterTry, FALSE)

\* handleSubmit after the await: try body, catch, finally
Continuation(prevState, turn, response) ==
  LET updatedMessages == updatedMessagesOf(turn)
      replied == updateMessages(prevState,
                   Append(updatedMessages,
                          [role |-> "assistant", content |-> response.content]))
      troubled == updateMessages(replied,
                   Append(updatedMessages,
                          [role |-> "assistant", content |-> Str(TroubleText)]))
      afterTry == IF ~Truthy(response.contexts) THEN replied
                  ELSE IF MapThrows(response.contexts) THEN troubled
                  ELSE updateRetrievedContexts(replied, response.contexts)
  IN setIsLoading(afterTry, FALSE)

\* variant: only the empty input is refused
IsBlank_emptyOnly(s) == s = ""

\* String.prototype.trim() leaves nothing
IsBlank(s) == \A k \in 1..Len(s) : CharAt(s, k) \in {" ", "\t", "\n"}

RemoveAt(seq, i) == SubSeq(seq, 1, i - 1) \o SubSeq(seq, i + 1, Len(seq))

\* every suspended turn has now seen another submit or a reset
Disturbed(ts) == [t \in 1..Len(ts) |-> [ts[t] EXCEPT !.overlapped = TRUE]]

\* the turns left when turn i has ended: those submitted before it have now
\* seen a later turn complete first
Overtake(ts, i) ==
  [t \in 1..(Len(ts) - 1) |->
     IF t < i THEN [ts[t] EXCEPT !.overtaken = TRUE] ELSE ts[t + 1]]

NoTurn == [some |-> FALSE]

NoCall == [service |-> "none", pc |-> "none"]

NoEditor == [mounted |-> FALSE]

(***************************************************************************)
(* Actions of the chat view.                                               *)
(***************************************************************************)
\* onChange of the input, which is disabled while isLoading; typing is
\* followed only as long as a further turn can be submitted
TypeInput(text) ==
  /\ route = "chat"
  /\ ~chatState.isLoading
  /\ started < MaxTurns
  /\ text # inputText
  /\ inputText' = text
  /\ UNCHANGED <<chatState, turns, reqs, started, lastDone, sanIn, sanOut, sanPc, route, call, editor>>

\* AIChat.handleSubmit up to the await
handleSubmit ==
  IF IsBlank(inputText)
  THEN route = "chat" /\ UNCHANGED vars
  ELSE /\ route = "chat"
       /\ started < MaxTurns
       /\ LET userMessage == [role |-> "user", content |-> Str(inputText)]
              messages == chatState.messages
              updatedMessages == Append(messages, userMessage)
          IN /\ chatState' = setIsLoading(updateMessages(chatState, updatedMessages), TRUE)
             /\ inputText' = ""
             /\ turns' = Append(Disturbed(turns),
                                [messages |-> messages, userMessage |-> userMessage,
                                 overlapped |-> turns # <<>>, overtaken |-> FALSE])
             /\ reqs' = Append(reqs,
                               NewRequest("/chat/message",
                                          [message |-> userMessage.content,
                                           history |-> formattedHistory(
                                                         historyArgument(messages,
                                                                         updatedMessages))]))
       /\ started' = started + 1
       /\ UNCHANGED <<lastDone, sanIn, sanOut, sanPc, route, call, editor>>

\* an attempt of request i settles; when the interceptor settles the logical
\* request, contextualChat and the rest of handleSubmit run in the same task
AttemptSettles(i, outcome) ==
  /\ i \in 1..Len(reqs)
  /\ reqs[i].phase = "inflight"
  /\ LET r == Intercept(reqs, i, outcome)
     IN IF r.phase = "settled"
        THEN /\ chatState' = Continuation(chatState, turns[i], contextualChat(r.result))
             /\ turns' = Overtake(turns, i)
             /\ reqs' = RemoveAt(reqs, i)
             /\ lastDone' = [some |-> TRUE, turn |-> turns[i], req |-> r]
        ELSE /\ reqs' = [reqs EXCEPT ![i] = r]
             /\ UNCHANGED <<chatState, turns, lastDone>>
  /\ UNCHANGED <<inputText, started, sanIn, sanOut, sanPc, route, call, editor>>

\* the setTimeout of the interceptor fires and apiClient(originalRequest) runs
RetryTimerFires(i) ==
  /\ i \in 1..Len(reqs)
  /\ reqs[i].phase = "delay"
  /\ reqs' = [reqs EXCEPT ![i].phase = "inflight",
                          ![i].attempts = @ + 1,
                          ![i].waited = @ + RetryDelayMs]
  /\ UNCHANGED <<chatState, inputText, turns, started, lastDone, sanIn, sanOut, sanPc, route, call, editor>>

\* variant: the Reset button empties the transcript instead of seeding it
resetChat_emptied ==
  /\ route = "chat"
  /\ chatState' = [initialChatState EXCEPT !.messages = <<>>]
  /\ turns' = Disturbed(turns)
  /\ UNCHANGED <<inputText, reqs, started, lastDone, sanIn, sanOut, sanPc, route, call, editor>>

\* the Reset button
resetChat ==
  /\ route = "chat"
  /\ chatState' = initialChatState
  /\ turns' = Disturbed(turns)
  /\ UNCHANGED <<inputText, reqs, started, lastDone, sanIn, sanOut, sanPc, route, call, editor>>

\* a NavLink of Layout to another route: AIChat unmounts and its local state
\* (inputText) is gone; ChatProvider, mounted above the router, stays
NavigateAway ==
  /\ route = "chat"
  /\ route' = "journal"
  /\ inputText' = ""
  /\ UNCHANGED <<chatState, turns, reqs, started, lastDone, sanIn, sanOut, sanPc, call, editor>>

\* variant: the provider is mounted with the chat view and starts afresh
NavigateToChat_remount ==
  /\ route = "journal"
  /\ route' = "chat"
  /\ inputText' = ""
  /\ chatState' = initialChatState
  /\ UNCHANGED <<turns, reqs, started, lastDone, sanIn, sanOut, sanPc, call, editor>>

\* the NavLink to /chat: AIChat mounts again, with useState('') for the input
\* and useChatContext() for the state the provider still holds
NavigateToChat ==
  /\ route = "journal"
  /\ route' = "chat"
  /\ inputText' = ""
  /\ UNCHANGED <<chatState, turns, reqs, started, lastDone, sanIn, sanOut, sanPc, call, editor>>

Init ==
  /\ chatState = initialChatState
  /\ inputText = ""
  /\ turns = <<>>
  /\ reqs = <<>>
  /\ started = 0
  /\ lastDone = NoTurn
  /\ sanIn = Undefined
  /\ sanOut = Undefined
  /\ sanPc = "idle"
  /\ route = "chat"
  /\ call = NoCall
  /\ editor = NoEditor

Next ==
  \/ \E text \in UserTexts : TypeInput(text)
  \/ handleSubmit
  \/ \E i \in 1..MaxTurns, outcome \in Outcomes : AttemptSettles(i, outcome)
  \/ \E i \in 1..MaxTurns : RetryTimerFires(i)
  \/ resetChat

Spec == Init /\ [][Next]_vars

\* inputs that trim() empties: the empty one and one of white space only
BlankTexts == {"", " \t\n"}

\* the chat view with a user who also types white space
NextBlank ==
  \/ \E text \in {"Hello"} \cup BlankTexts : TypeInput(text)
  \/ handleSubmit
  \/ \E i \in 1..MaxTurns, outcome \in Outcomes : AttemptSettles(i, outcome)
  \/ \E i \in 1..MaxTurns : RetryTimerFires(i)
  \/ resetChat

SpecBlank == Init /\ [][NextBlank]_vars

\* every network attempt eventually settles and every armed timer fires
Fairness ==
  \A i \in 1..MaxTurns :
    /\ WF_vars(\E outcome \in Outcomes : AttemptSettles(i, outcome))
    /\ WF_vars(RetryTimerFires(i))

SpecLive == Spec /\ Fairness

NextNav == Next \/ NavigateAway \/ NavigateToChat

\* the chat view inside the router of main.jsx
SpecNav == Init /\ [][NextNav]_vars

TypeOK ==
  /\ chatState.isLoading \in BOOLEAN
  /\ Len(turns) = Len(reqs)
  /\ started <= MaxTurns

(***************************************************************************)
(* The three store operations called in any order by a consumer of the     *)
(* context.                                                                *)
(***************************************************************************)
StoreEntries ==
  {initialChatState.messages[1]} \cup
    {[role |-> "user", content |-> Str(t)] : t \in UserTexts}

\* arguments of updateMessages
StoreTranscripts ==
  {<<>>} \cup {<<m>> : m \in StoreEntries}
         \cup {<<m, n>> : m \in StoreEntries, n \in StoreEntries}

\* arguments of updateRetrievedContexts
StoreContextLists ==
  {Arr(<<>>), Arr(<<SomeContext>>), Arr(<<SomeContext, SomeContext>>)}

updateMessagesCalled(newMessages) ==
  /\ chatState' = updateMessages(chatState, newMessages)
  /\ sanPc' = "updateMessages"
  /\ UNCHANGED <<inputText, turns, reqs, started, lastDone, sanIn, sanOut, route, call, editor>>

updateRetrievedContextsCalled(contexts) ==
  /\ chatState' = updateRetrievedContexts(chatState, contexts)
  /\ sanPc' = "updateRetrievedContexts"
  /\ UNCHANGED <<inputText, turns, reqs, started, lastDone, sanIn, sanOut, route, call, editor>>

setIsLoadingCalled(isLoading) ==
  /\ chatState' = setIsLoading(chatState, isLoading)
  /\ sanPc' = "setIsLoading"
  /\ UNCHANGED <<inputText, turns, reqs, started, lastDone, sanIn, sanOut, route, call, editor>>

NextStore ==
  \/ \E newMessages \in StoreTranscripts : updateMessagesCalled(newMessages)
  \/ \E contexts \in StoreContextLists : updateRetrievedContextsCalled(contexts)
  \/ \E isLoading \in BOOLEAN : setIsLoadingCalled(isLoading)

SpecStore == Init /\ [][NextStore]_vars

(***************************************************************************)
(* Direct calls of sanitizeContent and of updateMessages on one text.      *)
(***************************************************************************)
InitSan ==
  /\ chatState = initialChatState
  /\ inputText = ""
  /\ turns = <<>>
  /\ reqs = <<>>
  /\ started = 0
  /\ lastDone = NoTurn
  /\ sanIn \in {Str(t) : t \in SanInputs} \cup NonStrings
  /\ sanOut = Undefined
  /\ sanPc = "called"
  /\ route = "chat"
  /\ call = NoCall
  /\ editor = NoEditor

\* sanitizeContent(sanIn) returns
SanitizeReturns ==
  /\ sanPc = "called"
  /\ sanOut' = sanitizeContent(sanIn)
  /\ sanPc' = "returned"
  /\ UNCHANGED <<chatState, inputText, turns, reqs, started, lastDone, sanIn, route, call, editor>>

\* updateMessages([{role: 'user', content: sanIn}]) on the store
StoreOne ==
  /\ sanPc = "called"
  /\ IF sanitizeContentThrows(sanIn)
     THEN sanPc' = "raised" /\ UNCHANGED chatState
     ELSE /\ chatState' = updateMessages(chatState, <<[role |-> "user", content |-> sanIn]>>)
          /\ sanPc' = "stored"
  /\ UNCHANGED <<inputText, turns, reqs, started, lastDone, sanIn, sanOut, route, call, editor>>

\* updateRetrievedContexts([{title: sanIn, content_snippet: sanIn, ...}])
StoreContexts ==
  /\ sanPc = "called"
  /\ IF sanitizeContentThrows(sanIn)
     THEN sanPc' = "raised" /\ UNCHANGED chatState
     ELSE /\ chatState' =
               updateRetrievedContexts(chatState,
                 Arr(<<[SomeContext EXCEPT !.title = sanIn, !.content_snippet = sanIn]>>))
          /\ sanPc' = "storedContexts"
  /\ UNCHANGED <<inputText, turns, reqs, started, lastDone, sanIn, sanOut, route, call, editor>>

NextSan == SanitizeReturns \/ StoreOne \/ StoreContexts

SpecSan == InitSan /\ [][NextSan]_vars

(***************************************************************************)
(* Direct calls of the two methods of chatService.                         *)
(***************************************************************************)
Services == {"contextualChat", "sendMessage"}

Histories == {<<>>, initialChatState.messages}

InitSvc ==
  /\ chatState = initialChatState
  /\ inputText = ""
  /\ turns = <<>>
  /\ started = 0
  /\ lastDone = NoTurn
  /\ sanIn = Undefined
  /\ sanOut = Undefined
  /\ sanPc = "idle"
  /\ route = "chat"
  /\ editor = NoEditor
  /\ \E service \in Services, message \in UserTexts, history \in Histories :
       /\ call = [service |-> service, pc |-> "awaiting"]
       /\ reqs = <<NewRequest("/chat/message",
                               [message |-> Str(message),
                                history |-> IF service = "contextualChat"
                                            THEN formattedHistory(history)
                                            ELSE history])>>

\* an attempt of the request of the call settles; when the interceptor settles
\* the request, the method's try/catch decides what the caller gets
ServiceAttemptSettles(outcome) ==
  /\ call.pc = "awaiting"
  /\ reqs[1].phase = "inflight"
  /\ LET r == Intercept(reqs, 1, outcome)
         settled == IF call.service = "contextualChat"
                    THEN contextualChatSettles(r.result)
                    ELSE sendMessage(r.result)
     IN /\ reqs' = <<r>>
        /\ call' = IF r.phase = "settled"
                   THEN [service |-> call.service, pc |-> "settled",
                         threw |-> settled.threw, value |-> settled.value, req |-> r]
                   ELSE call
  /\ UNCHANGED <<chatState, inputText, turns, started, lastDone, sanIn, sanOut, sanPc, route, editor>>

NextSvc == (\E outcome \in Outcomes : ServiceAttemptSettles(outcome)) \/ RetryTimerFires(1)

SpecSvc == InitSvc /\ [][NextSvc]_vars

(***************************************************************************)
(* Direct calls of the methods of journalService.                          *)
(***************************************************************************)
USE_MOCK_DATA == FALSE

MOCK_ENTRIES ==
  Arr(<<[id |-> "1", title |-> Str("Getting Started with AI Journal")],
        [id |-> "2", title |-> Str("My Goals for This Week")]>>)

Obj == [type |-> "object"]

SomeEntry == [id |-> "7", title |-> Str("Day one"), content |-> Str("walked")]

\* bodies the backend can answer a journal request with
JournalBodies == {Arr(<<>>), Arr(<<SomeEntry>>), Obj, Null, Undefined, Str("<html>")}

JournalOutcomes == {Response(body) : body \in JournalBodies} \cup Failures

\* variant: the body of the response is returned whatever it is
getAllEntries_passesBody(result) ==
  IF result.kind = "response"
  THEN [threw |-> FALSE, value |-> result.data]
  ELSE [threw |-> FALSE, value |-> IF USE_MOCK_DATA THEN MOCK_ENTRIES ELSE Arr(<<>>)]

\* how the promise of getAllEntries settles once GET /journal has settled
getAllEntries(result) ==
  IF result.kind = "response"
  THEN [threw |-> FALSE,
        value |-> IF result.data.type = "array" THEN result.data ELSE Arr(<<>>)]
  ELSE [threw |-> FALSE, value |-> IF USE_MOCK_DATA THEN MOCK_ENTRIES ELSE Arr(<<>>)]

\* getEntry, createEntry, updateEntry and deleteEntry: return response.data,
\* and in the catch block log and rethrow
returnsDataOrRethrows(result) ==
  IF result.kind = "response"
  THEN [threw |-> FALSE, value |-> result.data]
  ELSE [threw |-> TRUE, value |-> result]

\* method and url of the request each method of journalService issues
JournalRequests ==
  [getAllEntries |-> [method |-> "get", url |-> "/journal", data |-> Undefined],
   getEntry      |-> [method |-> "get", url |-> "/journal/7", data |-> Undefined],
   createEntry   |-> [method |-> "post", url |-> "/journal", data |-> SomeEntry],
   updateEntry   |-> [method |-> "patch", url |-> "/journal/7", data |-> SomeEntry],
   deleteEntry   |-> [method |-> "delete", url |-> "/journal/7", data |-> Undefined]]

JournalServices == DOMAIN JournalRequests

InitJournal ==
  /\ chatState = initialChatState
  /\ inputText = ""
  /\ turns = <<>>
  /\ started = 0
  /\ lastDone = NoTurn
  /\ sanIn = Undefined
  /\ sanOut = Undefined
  /\ sanPc = "idle"
  /\ route = "journal"
  /\ editor = NoEditor
  /\ \E service \in JournalServices :
       /\ call = [service |-> service, pc |-> "awaiting"]
       /\ reqs = <<[NewRequest(JournalRequests[service].url, JournalRequests[service].data)
                      EXCEPT !.config.method = JournalRequests[service].method]>>

\* an attempt of the request of the call settles; when the interceptor settles
\* the request, the method's try/catch decides what the caller gets
JournalAttemptSettles(outcome) ==
  /\ call.pc = "awaiting"
  /\ reqs[1].phase = "inflight"
  /\ LET r == Intercept(reqs, 1, outcome)
         settled == IF call.service = "getAllEntries"
                    THEN getAllEntries(r.result)
                    ELSE returnsDataOrRethrows(r.result)
     IN /\ reqs' = <<r>>
        /\ call' = IF r.phase = "settled"
                   THEN [service |-> call.service, pc |-> "settled",
                         threw |-> settled.threw, value |-> settled.value, req |-> r]
                   ELSE call
  /\ UNCHANGED <<chatState, inputText, turns, started, lastDone, sanIn, sanOut, sanPc, route, editor>>

NextJournal ==
  (\E outcome \in JournalOutcomes : JournalAttemptSettles(outcome)) \/ RetryTimerFires(1)

SpecJournal == InitJournal /\ [][NextJournal]_vars

(***************************************************************************)
(* JournalEntry: the entry editor and its handleSave.                      *)
(***************************************************************************)
ValidationText == "Title and content are required."

SaveFailedText == "Failed to save journal entry. Please try again later."

\* what the user can have typed into the title and the content field
FieldTexts == [title |-> {"", "Day one"}, content |-> {"", "walked"}]

InitEditor ==
  /\ chatState = initialChatState
  /\ inputText = ""
  /\ turns = <<>>
  /\ reqs = <<>>
  /\ started = 0
  /\ lastDone = NoTurn
  /\ sanIn = Undefined
  /\ sanOut = Undefined
  /\ sanPc = "idle"
  /\ route = "journal"
  /\ call = NoCall
  /\ \E isNewEntry \in BOOLEAN :
       editor = [mounted     |-> TRUE,
                 isNewEntry  |-> isNewEntry,
                 entry       |-> IF isNewEntry
                                 THEN [title |-> "", content |-> ""]
                                 ELSE [title |-> "Day one", content |-> "walked"],
                 error       |-> Null,
                 isEditing   |-> isNewEntry,
                 isSaving    |-> FALSE,
                 saveSuccess |-> FALSE,
                 last        |-> "none"]   \* what handleSave did, until Edit or Cancel

\* the Save, Cancel and Preview buttons are rendered
SaveButtonShown == editor.mounted /\ ~editor.isSaving /\ editor.isEditing /\ editor.last # "navigated"

\* onChange of the title or the content field
handleInputChange(name, value) ==
  /\ editor.mounted /\ editor.isEditing /\ editor.last # "navigated"
  /\ editor.entry[name] # value
  /\ editor' = [editor EXCEPT !.entry[name] = value]
  /\ UNCHANGED <<chatState, inputText, turns, reqs, started, lastDone, sanIn, sanOut, sanPc,
                 route, call>>

\* the Edit button
startEditing ==
  /\ editor.mounted /\ ~editor.isEditing /\ ~editor.isSaving /\ editor.last # "navigated"
  /\ editor' = [editor EXCEPT !.isEditing = TRUE, !.last = "none"]
  /\ UNCHANGED <<chatState, inputText, turns, reqs, started, lastDone, sanIn, sanOut, sanPc,
                 route, call>>

\* the Cancel button
cancelEditing ==
  /\ SaveButtonShown
  /\ editor' = [editor EXCEPT !.isEditing = FALSE, !.last = "none"]
  /\ UNCHANGED <<chatState, inputText, turns, reqs, started, lastDone, sanIn, sanOut, sanPc,
                 route, call>>

\* handleSave up to the await
handleSave ==
  /\ SaveButtonShown
  /\ IF editor.entry.title = "" \/ editor.entry.content = ""
     THEN /\ editor' = [editor EXCEPT !.error = Str(ValidationText), !.last = "invalid"]
          /\ UNCHANGED reqs
     ELSE /\ editor' = [editor EXCEPT !.isSaving = TRUE, !.error = Null,
                                      !.saveSuccess = FALSE, !.last = "saving"]
          /\ reqs' = <<[NewRequest(IF editor.isNewEntry THEN "/journal" ELSE "/journal/7",
                                   editor.entry)
                          EXCEPT !.config.method = IF editor.isNewEntry THEN "post" ELSE "patch"]>>
  /\ UNCHANGED <<chatState, inputText, turns, started, lastDone, sanIn, sanOut, sanPc,
                 route, call>>

\* variant: setIsSaving(false) is the last statement of the try block
saveContinuation_noFinally(ed, settled) ==
  LET caught == settled.threw
                  \/ (ed.isNewEntry /\ settled.value.type \in {"undefined", "null"})
  IN IF caught THEN [ed EXCEPT !.error = Str(SaveFailedText), !.last = "failed"]
     ELSE IF ed.isNewEntry THEN [ed EXCEPT !.last = "navigated", !.isSaving = FALSE]
     ELSE [ed EXCEPT !.isEditing = FALSE, !.saveSuccess = TRUE, !.last = "saved",
                     !.isSaving = FALSE]

\* handleSave after the await: try body, catch, finally; createdEntry.id raises
\* a TypeError inside the try block when the body is undefined or null
saveContinuation(ed, settled) ==
  LET caught == settled.threw
                  \/ (ed.isNewEntry /\ settled.value.type \in {"undefined", "null"})
      afterTry == IF caught THEN [ed EXCEPT !.error = Str(SaveFailedText), !.last = "failed"]
                  ELSE IF ed.isNewEntry THEN [ed EXCEPT !.last = "navigated"]
                  ELSE [ed EXCEPT !.isEditing = FALSE, !.saveSuccess = TRUE, !.last = "saved"]
  IN [afterTry EXCEPT !.isSaving = FALSE]

\* an attempt of the create/update request settles; when the interceptor settles
\* the request, the service method and the rest of handleSave run
SaveAttemptSettles(outcome) ==
  /\ editor.mounted
  /\ reqs # <<>>
  /\ reqs[1].phase = "inflight"
  /\ LET r == Intercept(reqs, 1, outcome)
     IN IF r.phase = "settled"
        THEN /\ editor' = saveContinuation(editor, returnsDataOrRethrows(r.result))
             /\ call' = [service |-> IF editor.isNewEntry THEN "createEntry" ELSE "updateEntry",
                         pc |-> "settled", req |-> r]
             /\ reqs' = <<>>
        ELSE /\ reqs' = <<r>>
             /\ UNCHANGED <<editor, call>>
  /\ UNCHANGED <<chatState, inputText, turns, started, lastDone, sanIn, sanOut, sanPc, route>>

\* the setTimeout of the success message, 3 seconds after a saved update
SuccessTimerFires ==
  /\ editor.mounted /\ editor.saveSuccess
  /\ editor' = [editor EXCEPT !.saveSuccess = FALSE]
  /\ UNCHANGED <<chatState, inputText, turns, reqs, started, lastDone, sanIn, sanOut, sanPc,
                 route, call>>

NextEditor ==
  \/ \E name \in DOMAIN FieldTexts : \E value \in FieldTexts[name] : handleInputChange(name, value)
  \/ startEditing
  \/ cancelEditing
  \/ handleSave
  \/ \E outcome \in JournalOutcomes : SaveAttemptSettles(outcome)
  \/ RetryTimerFires(1)
  \/ SuccessTimerFires

SpecEditor == InitEditor /\ [][NextEditor]_vars

(***************************************************************************)
(* Properties of the API client.                                           *)
(***************************************************************************)
\* the requests in flight and the one that settled last
AllReqs ==
  {reqs[i] : i \in 1..Len(reqs)} \cup (IF lastDone.some THEN {lastDone.req} ELSE {})

IsServerError(o) == o.kind = "error" /\ o.hasConfig /\ o.status >= 500

\* C1: a request whose attempt fails with a status in [400,500) is not
\* reissued: that attempt is its last one, the request is settled with that
\* very failure, and a 4xx on the first attempt leaves exactly one attempt.
C1_ClientErrorNotReissued ==
  \A r \in AllReqs : \A k \in 1..Len(r.outcomes) :
    IsClientError(r.outcomes[k]) =>
      /\ k = Len(r.outcomes)
      /\ r.attempts = k
      /\ r.phase = "settled"
      /\ r.result = r.outcomes[k]

C1_Witness ==
  /\ lastDone.some
  /\ lastDone.req.outcomes = <<AxiosError(400)>>
  /\ lastDone.req.attempts = 1
  /\ lastDone.req.result = AxiosError(400)

\* C2: a request whose first attempt fails with a 5xx status or without a
\* response goes through the fixed delay and is reissued exactly once: it
\* never makes a third attempt, every reissue was preceded by the delay, and
\* it never settles on its first attempt.
C2_RetriedExactlyOnce ==
  \A r \in AllReqs :
    /\ r.attempts <= 2
    /\ r.waited = (r.attempts - 1) * RetryDelayMs
    /\ (Len(r.outcomes) >= 1 /\ IsRetryable(r.outcomes[1])) =>
         \/ r.phase = "delay" /\ r.attempts = 1
         \/ r.phase \in {"inflight", "settled"} /\ r.attempts = 2

C2_Witness ==
  /\ lastDone.some
  /\ Len(lastDone.req.outcomes) = 2
  /\ IsRetryable(lastDone.req.outcomes[1])
  /\ IsRetryable(lastDone.req.outcomes[2])
  /\ lastDone.req.attempts = 2
  /\ lastDone.req.waited = RetryDelayMs

\* C3: a failed request is settled with the underlying error of its last
\* attempt, never with another error, also when that error has no config.
C3_ForwardsUnderlyingError ==
  \A r \in AllReqs :
    (r.phase = "settled" /\ r.outcomes[Len(r.outcomes)].kind = "error") =>
      r.result = r.outcomes[Len(r.outcomes)]

\* C4: the retried flag of a request is set by that request's own first
\* failure and by nothing else, and its number of attempts follows from its
\* own flag, whatever the other requests in flight have done.
C4_RetryFlagPerRequest ==
  \A r \in AllReqs :
    /\ r.config.retry = (Len(r.outcomes) >= 1 /\ IsRetryable(r.outcomes[1]))
    /\ r.attempts = IF r.config.retry /\ r.phase # "delay" THEN 2 ELSE 1

\* two requests in flight together, the first already reissued when the second
\* failed and was reissued in its turn
C4_Witness ==
  /\ Len(reqs) = 2
  /\ reqs[1].phase = "inflight" /\ reqs[1].attempts = 2 /\ reqs[1].config.retry
  /\ reqs[2].phase = "inflight" /\ reqs[2].attempts = 2 /\ reqs[2].config.retry

(***************************************************************************)
(* Properties of sanitizeContent and of the store.                         *)
(***************************************************************************)
\* C5: a text containing <script>alert(1)</script> is stored by
\* updateMessages without the literal substring <script>.
C5_StoredWithoutScriptTag ==
  (sanPc = "stored" /\ IsString(sanIn) /\ Contains(sanIn.str, "<script>alert(1)</script>")) =>
    \A k \in 1..Len(chatState.messages) :
      ~Contains(chatState.messages[k].content.str, "<script>")

\* C6: the output of sanitizeContent on a text containing javascript:alert(1)
\* does not contain the substring javascript:.
C6_OutputWithoutJsScheme ==
  (sanPc = "returned" /\ IsString(sanIn) /\ Contains(sanIn.str, "javascript:alert(1)")) =>
    ~Contains(sanOut.str, "javascript:")

\* one of the three patterns sanitizeContent removes occurs in s
HasPattern(s) ==
  \/ \E i \in 1..Len(s) : ScriptMatchEnd(s, i) > 0
  \/ ContainsCI(s, JsScheme)
  \/ \E i \in 1..Len(s) : OnMatchEnd(s, i) > 0

\* C7: no message content and no context title or content_snippet held by the
\* store contains a script block, javascript: or an on<word>= pattern.
C7_StoreHoldsNoPattern ==
  /\ \A k \in 1..Len(chatState.messages) :
       ~HasPattern(chatState.messages[k].content.str)
  /\ \A k \in 1..Len(chatState.retrievedContexts) :
       /\ ~HasPattern(chatState.retrievedContexts[k].title.str)
       /\ ~HasPattern(chatState.retrievedContexts[k].content_snippet.str)

(***************************************************************************)
(* Properties of the chat turn.                                            *)
(***************************************************************************)
\* a turn finishes in this step; lastDone' is that turn
TurnEnds == Len(turns') < Len(turns)

\* C8: a turn that no other turn and no reset overlapped and whose request
\* succeeds leaves the transcript it was submitted on followed by the user
\* message and the assistant reply (contents as sanitizeContent stores them),
\* and isLoading false.
C8_SuccessAppendsTwoEntries ==
  [][(/\ TurnEnds
      /\ ~lastDone'.turn.overlapped
      /\ lastDone'.req.result.kind = "response")
     => /\ chatState'.messages =
             lastDone'.turn.messages \o
               <<[role |-> "user",
                  content |-> sanitizeContent(lastDone'.turn.userMessage.content)],
                 [role |-> "assistant",
                  content |-> sanitizeContent(lastDone'.req.result.data.response)]>>
        /\ ~chatState'.isLoading]_vars

\* C9: a turn whose attempts were all answered with a 5xx status ends after
\* exactly two attempts, with the fallback message of the chat service as last
\* entry, right after the turn's user message, and with isLoading false.
C9_ServerErrorTwiceEndsWithFallback ==
  [][(/\ TurnEnds
      /\ \A k \in 1..Len(lastDone'.req.outcomes) : IsServerError(lastDone'.req.outcomes[k]))
     => LET n == Len(chatState'.messages)
        IN /\ lastDone'.req.attempts = 2
           /\ Len(lastDone'.req.outcomes) = 2
           /\ n >= 2
           /\ chatState'.messages[n] = [role |-> "assistant", content |-> Str(FallbackText)]
           /\ chatState'.messages[n - 1] =
                [role |-> "user",
                 content |-> sanitizeContent(lastDone'.turn.userMessage.content)]
           /\ ~chatState'.isLoading]_vars

C9_Witness ==
  /\ lastDone.some
  /\ lastDone.req.outcomes = <<AxiosError(500), AxiosError(500)>>
  /\ lastDone.req.attempts = 2
  /\ chatState.messages[Len(chatState.messages)] =
       [role |-> "assistant", content |-> Str(FallbackText)]
  /\ ~chatState.isLoading

\* C10: isLoading is true exactly when a chat request is outstanding.
C10_LoadingIffOutstanding == chatState.isLoading <=> (turns # <<>>)

(***************************************************************************)
(* Properties of the chat turn protocol and of the store.                  *)
(***************************************************************************)
\* C11: provided every attempt eventually settles, the turns suspended at
\* their await all end, whatever the outcomes of their attempts were, and
\* every turn leaves isLoading false at the moment it ends.
C11_TurnEventuallyEndsNotLoading ==
  /\ [][TurnEnds => ~chatState'.isLoading]_vars
  /\ \A n \in 1..MaxTurns : (Len(turns) = n) ~> (Len(turns) < n /\ ~chatState.isLoading)

C11_Witness ==
  /\ lastDone.some
  /\ lastDone.req.outcomes = <<AxiosError(0), PlainError>>
  /\ turns = <<>>
  /\ ~chatState.isLoading

IsPrefix(s, t) == Len(s) <= Len(t) /\ SubSeq(t, 1, Len(s)) = s

\* C12: apart from resetChat, every step that changes the transcript extends
\* it: the previous sequence is a prefix of the new one, so no message already
\* stored changes its role or content.
C12_TranscriptAppendOnly ==
  [][resetChat \/ IsPrefix(chatState.messages, chatState'.messages)]_vars

\* the sequence a turn passes to updateMessages once its reply is there
WrittenBy(turn, req) ==
  Append(updatedMessagesOf(turn),
         [role |-> "assistant", content |-> contextualChat(req.result).content])

\* stored is seq entry by entry, with every content sanitized
Wholesale(seq, stored) ==
  /\ Len(stored) = Len(seq)
  /\ \A k \in 1..Len(seq) :
       /\ stored[k].role = seq[k].role
       /\ stored[k].content = sanitizeContent(seq[k].content)

\* C13: whatever the transcript was before, after updateMessages(seq) the
\* transcript has the length of seq, its order and roles, and the sanitized
\* contents of its entries; checked on the call at submit and on the call
\* that ends a turn.
C13_UpdateMessagesReplacesWholesale ==
  [][/\ (started' = started + 1) =>
          Wholesale(Append(chatState.messages, [role |-> "user", content |-> Str(inputText)]),
                    chatState'.messages)
     /\ TurnEnds => Wholesale(WrittenBy(lastDone'.turn, lastDone'.req), chatState'.messages)]_vars

\* a turn has ended over the transcript of a later turn that is still waiting:
\* the later turn's user message is gone
C13_Witness ==
  /\ lastDone.some
  /\ lastDone.turn.overlapped
  /\ Len(turns) = 1
  /\ turns[1].userMessage # lastDone.turn.userMessage
  /\ Len(lastDone.turn.messages) = 1
  /\ Wholesale(WrittenBy(lastDone.turn, lastDone.req), chatState.messages)
  /\ Len(chatState.messages) = 3

\* a step of the Reset button, whatever the store does on it
ResetPressed ==
  /\ route = "chat"
  /\ turns' = Disturbed(turns)
  /\ UNCHANGED <<inputText, reqs, started, lastDone, route>>
  /\ chatState' # chatState \/ turns' # turns

\* C14: a reset from any reachable state leaves one message, the assistant's
\* greeting, no retrieved contexts and isLoading false, which is the state
\* of Init; a reset from that state changes nothing.
C14_ResetYieldsInitialState ==
  [][ResetPressed =>
       /\ Len(chatState'.messages) = 1
       /\ chatState'.messages[1] = [role |-> "assistant", content |-> Str(Greeting)]
       /\ chatState'.retrievedContexts = <<>>
       /\ ~chatState'.isLoading
       /\ chatState' = initialChatState
       /\ (chatState = initialChatState => chatState' = chatState)]_vars

\* Reset was pressed during the only turn so far: the store is back at the
\* greeting while that turn is still waiting
C14_Witness ==
  /\ started = 1
  /\ Len(turns) = 1
  /\ turns[1].overlapped
  /\ chatState = initialChatState

\* stored is the list of contexts entry by entry, title and snippet sanitized
SanitizedContexts(items, stored) ==
  /\ Len(stored) = Len(items)
  /\ \A k \in 1..Len(items) :
       /\ stored[k].title = sanitizeContent(items[k].title)
       /\ stored[k].content_snippet = sanitizeContent(items[k].content_snippet)
       /\ stored[k].created_at = items[k].created_at
       /\ stored[k].similarity_score = items[k].similarity_score

\* C15: when a turn ends with a response whose retrieved_contexts is a list,
\* retrievedContexts is that list with title and snippet sanitized, whatever
\* it held before; with the empty list it is the empty sequence.
C15_ContextsReplacedByTurnsList ==
  [][(/\ TurnEnds
      /\ lastDone'.req.result.kind = "response"
      /\ lastDone'.req.result.data.retrieved_contexts.type = "array")
     => LET items == lastDone'.req.result.data.retrieved_contexts.items
        IN /\ SanitizedContexts(items, chatState'.retrievedContexts)
           /\ (items = <<>> => chatState'.retrievedContexts = <<>>)]_vars

\* the second turn has ended with the empty list and no context is shown
C15_Witness ==
  /\ started = 2
  /\ lastDone.some
  /\ ~lastDone.turn.overlapped
  /\ Len(lastDone.turn.messages) = 3
  /\ lastDone.req.result.kind = "response"
  /\ lastDone.req.result.data.retrieved_contexts = Arr(<<>>)
  /\ chatState.retrievedContexts = <<>>

C17_AppliedInCompletionOrder ==
  [][\A i \in 1..Len(turns) :
       (/\ TurnEnds
        /\ lastDone'.turn = turns[i]
        /\ lastDone'.req.config = reqs[i].config
        /\ turns[i].overlapped)
       => /\ Wholesale(WrittenBy(turns[i], lastDone'.req), chatState'.messages)
          /\ (turns' = <<>> =>
                chatState'.messages[Len(chatState'.messages) - 1].content
                  = sanitizeContent(turns[i].userMessage.content))]_vars

\* two turns overlapped, the later one ended first and the earlier one last:
\* the transcript is the earlier one's, the later one's messages are gone
C17_Witness ==
  /\ started = 2
  /\ turns = <<>>
  /\ lastDone.some
  /\ lastDone.turn.overlapped
  /\ lastDone.turn.overtaken
  /\ Wholesale(WrittenBy(lastDone.turn, lastDone.req), chatState.messages)
  /\ Len(chatState.messages) = 3

\* C18: updateMessages and updateRetrievedContexts never raise, whatever the
\* content, title or content_snippet of the entry is, and a value that is
\* missing or not a string is stored as it came.
C18_StoreNeverRaises ==
  /\ sanPc # "raised"
  /\ (sanPc = "stored" /\ ~IsString(sanIn)) =>
       chatState.messages = <<[role |-> "user", content |-> sanIn]>>
  /\ (sanPc = "storedContexts" /\ ~IsString(sanIn)) =>
       /\ Len(chatState.retrievedContexts) = 1
       /\ chatState.retrievedContexts[1].title = sanIn
       /\ chatState.retrievedContexts[1].content_snippet = sanIn

\* a context without title and content_snippet has been stored
C18_Witness ==
  /\ sanPc = "storedContexts"
  /\ sanIn = Undefined
  /\ chatState.retrievedContexts[1].title = Undefined

\* C19: a call of contextualChat is never rejected: when its request has
\* failed, after the one reissue where the policy grants it, the caller gets
\* the assistant message with the fixed fallback text and no contexts; a call
\* of sendMessage is rejected with that very failure.
C19_ContextualChatNeverRejects ==
  (call.pc = "settled") =>
    LET failed == call.req.result.kind # "response"
        last == call.req.outcomes[Len(call.req.outcomes)]
    IN /\ (failed /\ IsRetryable(last)) => call.req.attempts = 2
       /\ (call.service = "contextualChat") =>
            /\ ~call.threw
            /\ failed => call.value = [role |-> "assistant", content |-> Str(FallbackText),
                                       contexts |-> Undefined]
       /\ (call.service = "sendMessage") =>
            /\ call.threw <=> failed
            /\ failed => call.value = call.req.result

C19_Witness ==
  /\ call.pc = "settled"
  /\ call.service = "contextualChat"
  /\ call.req.outcomes = <<AxiosError(500), AxiosError(0)>>
  /\ ~call.threw
  /\ call.value.content = Str(FallbackText)

\* C20: when the first attempt of a request fails with a 5xx status or without
\* a response and the reissued attempt is answered, the request is settled with
\* the response of the second attempt and the caller gets the reply made from
\* it, not a failure and not the fallback.
C20_RetrySuccessReachesCaller ==
  (/\ call.pc = "settled"
   /\ Len(call.req.outcomes) = 2
   /\ IsRetryable(call.req.outcomes[1])
   /\ call.req.outcomes[2].kind = "response")
  => LET second == call.req.outcomes[2]
     IN /\ call.req.result = second
        /\ call.req.attempts = 2
        /\ ~call.threw
        /\ call.value.role = "assistant"
        /\ call.value.content = second.data.response
        /\ (call.service = "contextualChat") =>
             call.value.contexts = second.data.retrieved_contexts

C20_Witness ==
  /\ call.pc = "settled"
  /\ call.service = "sendMessage"
  /\ call.req.outcomes[1] = AxiosError(0)
  /\ Len(call.req.outcomes) = 2
  /\ call.req.outcomes[2].kind = "response"
  /\ ~call.threw
  /\ call.value.content = Str("Hi there")

\* C21: at most one chat request is outstanding at any time, under every
\* interleaving of submit, reset and completion.
C21_AtMostOneOutstanding == Len(reqs) <= 1

\* C22: the request a submit issues carries the typed text in message and, as
\* history, the transcript as it stood before the submit: same length, order,
\* roles and contents, the new user message not among its entries.
C22_HistoryIsTranscriptBefore ==
  [][(started' = started + 1)
     => LET body == reqs'[Len(reqs')].config.data
            before == chatState.messages
        IN /\ Len(reqs') = Len(reqs) + 1
           /\ body.message = Str(inputText)
           /\ Len(body.history) = Len(before)
           /\ \A k \in 1..Len(before) :
                /\ body.history[k].role = before[k].role
                /\ body.history[k].content = before[k].content]_vars

\* the request of a second turn is in flight with the three messages of the
\* first turn as history
C22_Witness ==
  /\ started = 2
  /\ Len(reqs) = 1
  /\ Len(reqs[1].config.data.history) = 3
  /\ reqs[1].config.data.history[2].role = "user"
  /\ reqs[1].config.data.history[3].role = "assistant"
  /\ reqs[1].config.data.message = Str("Hello")

(***************************************************************************)
(* Properties of journalService.                                           *)
(***************************************************************************)
\* C23: a call of getAllEntries is never rejected and always gives a list: the
\* body of the response when that body is a list, the empty list when it is
\* not or when the request failed; the other four methods are rejected with
\* the failure of their request.
C23_GetAllEntriesAlwaysList ==
  (call.pc = "settled") =>
    LET result == call.req.result
        failed == result.kind # "response"
    IN /\ (call.service = "getAllEntries") =>
            /\ ~call.threw
            /\ call.value.type = "array"
            /\ failed => call.value = Arr(<<>>)
            /\ (~failed /\ result.data.type = "array") => call.value = result.data
            /\ (~failed /\ result.data.type # "array") => call.value = Arr(<<>>)
       /\ (call.service # "getAllEntries") =>
            /\ call.threw <=> failed
            /\ failed => call.value = call.req.result

\* GET /journal was answered with a body that is no list
C23_Witness ==
  /\ call.pc = "settled"
  /\ call.service = "getAllEntries"
  /\ call.req.result = Response(Obj)
  /\ call.value = Arr(<<>>)

\* C24: a save with an empty title or content issues no request, shows the
\* validation error and leaves isSaving false; otherwise isSaving is true
\* exactly while the create/update request is outstanding, and once it has
\* settled isSaving is false, a failure showing the save error with the
\* editor still in editing mode.
C24_SavingWhileRequestOutstanding ==
  editor.mounted =>
    /\ editor.isSaving <=> (reqs # <<>>)
    /\ editor.isSaving <=> (editor.last = "saving")
    /\ (reqs # <<>>) =>
         /\ reqs[1].config.data.title # ""
         /\ reqs[1].config.data.content # ""
    /\ (editor.last = "invalid") => editor.error = Str(ValidationText)
    /\ (editor.last = "failed") =>
         /\ editor.error = Str(SaveFailedText)
         /\ editor.isEditing
    /\ (editor.last \in {"saved", "navigated"}) =>
         /\ call.req.result.kind = "response"
         /\ editor.error = Null

\* an update was answered with 500 twice: the save error is shown, the editor
\* is in editing mode and no longer saving
C24_Witness ==
  /\ editor.mounted
  /\ ~editor.isNewEntry
  /\ editor.last = "failed"
  /\ call.req.outcomes = <<AxiosError(500), AxiosError(500)>>
  /\ editor.error = Str(SaveFailedText)
  /\ editor.isEditing
  /\ ~editor.isSaving

(***************************************************************************)
(* Further properties of the chat turn protocol.                           *)
(***************************************************************************)
\* C25: while the transcript is the single greeting, which after a submit it
\* can only be through a reset, nothing but the next submit changes it: the
\* completion of a turn that was in flight at the reset does not.
C25_ResetNotUndone ==
  [][(chatState.messages = initialChatState.messages /\ started' = started)
     => chatState'.messages = chatState.messages]_vars

\* C26: with an input that is empty or white space only, no step issues a
\* request or starts a turn, and where no request is outstanding the only
\* change of the chat state such a step can make is that of the Reset button;
\* every request that was issued carries a message that is not blank.
C26_BlankSubmitIsNoOp ==
  [][/\ (inputText \in BlankTexts) =>
          /\ started' = started
          /\ Len(reqs') <= Len(reqs)
          /\ (reqs = <<>> /\ inputText' = inputText) =>
                /\ reqs' = <<>>
                /\ chatState' \in {chatState, initialChatState}
     /\ \A i \in 1..Len(reqs') : reqs'[i].config.data.message.str \notin BlankTexts]_vars

\* white space is in the input after a completed turn, and nothing is outstanding
C26_Witness ==
  /\ inputText = " \t\n"
  /\ started = 1
  /\ reqs = <<>>
  /\ Len(chatState.messages) = 3
  /\ ~chatState.isLoading

\* C27: the completion of a turn whose request failed, or whose response has
\* no retrieved_contexts field, leaves retrievedContexts as it finds it.
C27_ContextsKeptWithoutNewOnes ==
  [][(/\ TurnEnds
      /\ \/ lastDone'.req.result.kind # "response"
         \/ lastDone'.req.result.data.retrieved_contexts = Undefined)
     => chatState'.retrievedContexts = chatState.retrievedContexts]_vars

\* the second of two turns in sequence failed and the contexts of the first
\* are still displayed, next to the fallback message
C27_Witness ==
  /\ started = 2
  /\ turns = <<>>
  /\ lastDone.some
  /\ ~lastDone.turn.overlapped
  /\ lastDone.req.result.kind = "error"
  /\ chatState.retrievedContexts # <<>>
  /\ chatState.messages[Len(chatState.messages)].content = Str(FallbackText)

(***************************************************************************)
(* Properties of the store operations.                                     *)
(***************************************************************************)
\* C28: in any order of calls, updateMessages leaves retrievedContexts and
\* isLoading as they are, updateRetrievedContexts leaves messages and
\* isLoading as they are, and setIsLoading leaves messages and
\* retrievedContexts as they are.
C28_EachOperationOwnField ==
  [][/\ (sanPc' = "updateMessages") =>
          /\ chatState'.retrievedContexts = chatState.retrievedContexts
          /\ chatState'.isLoading = chatState.isLoading
     /\ (sanPc' = "updateRetrievedContexts") =>
          /\ chatState'.messages = chatState.messages
          /\ chatState'.isLoading = chatState.isLoading
     /\ (sanPc' = "setIsLoading") =>
          /\ chatState'.messages = chatState.messages
          /\ chatState'.retrievedContexts = chatState.retrievedContexts]_vars

\* setIsLoading has just been called on a store whose other two fields are
\* not the initial ones
C28_Witness ==
  /\ sanPc = "setIsLoading"
  /\ chatState.isLoading
  /\ Len(chatState.messages) = 2
  /\ Len(chatState.retrievedContexts) = 1

(***************************************************************************)
(* Further properties of sanitizeContent.                                  *)
(***************************************************************************)
\* C29: sanitizing the output of sanitizeContent again changes nothing.
C29_SanitizeIdempotent ==
  sanPc = "returned" => sanitizeContent(sanOut) = sanOut

\* a from position i on can be had from b from position j on by removing
\* characters
RECURSIVE IsSubsequenceFrom(_, _, _, _)
IsSubsequenceFrom(a, i, b, j) ==
  IF i > Len(a) THEN TRUE
  ELSE IF Len(b) - j < Len(a) - i THEN FALSE
  ELSE IF CharAt(a, i) = CharAt(b, j) THEN IsSubsequenceFrom(a, i + 1, b, j + 1)
  ELSE IsSubsequenceFrom(a, i, b, j + 1)

\* C30: sanitizeContent returns a value that is not a string as it is, returns
\* a string in which none of the three patterns occurs as it is, and returns
\* for any string a string obtained from it by removing characters only.
C30_OnlyRemovesPatterns ==
  (sanPc = "returned") =>
    IF IsString(sanIn)
    THEN /\ IsString(sanOut)
         /\ ~HasPattern(sanIn.str) => sanOut = sanIn
         /\ IsSubsequenceFrom(sanOut.str, 1, sanIn.str, 1)
    ELSE sanOut = sanIn

\* a text with markup but none of the patterns came back as it was
C30_Witness ==
  /\ sanPc = "returned"
  /\ sanIn = Str("<scr</SCRIPT>java")
  /\ sanOut = sanIn

====
